---- MODULE Spec2Model ----
(***************************************************************************)
(* S3Analyzer (src/s3_analysis.py) and the Streamlit dashboard that drives *)
(* it (src/dashboard.py).                                                  *)
(*                                                                         *)
(* Python values are modelled as follows.                                  *)
(*   - a str is a sequence of one-character strings ("d/" is <<"d","/">>), *)
(*     so that endswith, strip and the f-string that builds the cache key  *)
(*     are computed character by character;                                *)
(*   - an argument whose type the code tests (bucket_name, prefix) is a    *)
(*     tagged value [type |-> ..., val |-> ...];                           *)
(*   - a dict is a function whose DOMAIN is the set of keys present;       *)
(*   - the float size_mb = size_bytes / (1024 * 1024) is the exact         *)
(*     rational [num, den]: the division is by a power of two and exact in *)
(*     binary floating point for every size below 2^53;                    *)
(*   - round(x, 2) is an integer number of hundredths.                     *)
(***************************************************************************)
EXTENDS Integers, Sequences, FiniteSets, TLC

VARIABLES
    cache,             \* S3Analyzer.cache: cache_key -> results
    call,              \* arguments of the latest analyze_bucket call, or NoCall
    listing,           \* SpecScan: the listing the backend holds for the one scan
    listed,            \* whether that call invoked the paginator
    raised,            \* the exception the paginator raised during that call, or NoFault
    paginated,         \* the Bucket and Prefix that call gave paginate, or NotPaginated
    looked_up,         \* whether that call evaluated `cache_key in self.cache`
    origin,            \* history: for each cache key, the Bucket and Prefix of the scan
                       \* that produced the entry
    ret,               \* what that call returned: a results dict or None
    st_error,          \* the st.error message that call displayed, or NoMessage
    st_warning,        \* the st.warning message that call displayed, or NoMessage
    total_size_bytes,  \* get_bucket_metrics' local total_size_bytes when its loop ended
    last_analysis,     \* st.session_state.last_analysis
    view,              \* the branch of the dashboard's main content that was rendered
    last_scan          \* history: how the most recent analysis run by the dashboard ended

analyzer_vars == <<cache, call, listed, raised, paginated, looked_up, origin, ret, st_error, st_warning, total_size_bytes>>
dashboard_vars == <<last_analysis, view, last_scan>>
vars == <<cache, call, listing, listed, raised, paginated, looked_up, origin, ret, st_error, st_warning, total_size_bytes,
          last_analysis, view, last_scan>>

-----------------------------------------------------------------------------
(* Bounds of the model.                                                    *)

MaxPages == 2
MaxObjects == 3

-----------------------------------------------------------------------------
(* Python values.                                                          *)

None == [type |-> "NoneType", val |-> <<>>]
Str(chars) == [type |-> "str", val |-> chars]
IsStr(v) == v.type = "str"

NoCall == [type |-> "NoCall"]
NoMessage == [fmt |-> "", bucket |-> <<>>, detail |-> ""]
EmptyDict == <<>>

\* str.endswith
EndsWith(s, suffix) ==
    /\ Len(s) >= Len(suffix)
    /\ SubSeq(s, Len(s) - Len(suffix) + 1, Len(s)) = suffix

DictIncrement_Overwrite(d, k) == (k :> 1) @@ d

\* d[k] = d.get(k, 0) + 1
DictIncrement(d, k) ==
    IF k \in DOMAIN d THEN [d EXCEPT ![k] = @ + 1] ELSE (k :> 1) @@ d

\* size_bytes / (1024 * 1024)
BytesPerMB == 1024 * 1024
ToMB(size_bytes) == [num |-> size_bytes, den |-> BytesPerMB]

\* q < k for the rational q and the integer k
RatLess(q, k) == q.num < k * q.den

\* round(num / den, 2) in hundredths: Python rounds the exact value of the
\* float, ties to even.
Round2(num, den) ==
    LET whole == num \div den
        frac  == (num % den) * 100
        h     == frac \div den
        rest  == frac % den
        up    == \/ 2 * rest > den
                 \/ (2 * rest = den /\ h % 2 = 1)
    IN  whole * 100 + h + (IF up THEN 1 ELSE 0)

-----------------------------------------------------------------------------
(* The storage backend: list_objects_v2 behind a paginator.                *)
(* A descriptor is a dict with 'Key' and 'Size' and, optionally,           *)
(* 'StorageClass' and 'LastModified'. A page is a dict that has 'Contents' *)
(* (a list of descriptors) or, for an empty listing, lacks it. A listing   *)
(* is the pages the paginator yields and what ends them: the end of the    *)
(* listing (NoFault) or an exception raised when the next page is fetched. *)

NoFault == [type |-> "none", code |-> "", text |-> ""]
ClientError(code) == [type |-> "ClientError", code |-> code, text |-> ""]
OtherException(text) == [type |-> "Exception", code |-> "", text |-> text]

Faults ==
    { ClientError("NoSuchBucket"), ClientError("AccessDenied"),
      ClientError("InvalidBucketName"), ClientError("SlowDown"),
      OtherException("EndpointConnectionError") }

Datetime(y, mo, d, h, mi, s) ==
    [type |-> "datetime", year |-> y, month |-> mo, day |-> d,
     hour |-> h, minute |-> mi, second |-> s, val |-> <<>>]

SmallObject ==
    [Key |-> <<"a">>, Size |-> 512000, StorageClass |-> "STANDARD",
     LastModified |-> Datetime(2024, 1, 5, 9, 30, 7)]
ArchivedObject ==
    [Key |-> <<"b", "/">>, Size |-> 150000000, StorageClass |-> "GLACIER",
     LastModified |-> [type |-> "str", val |-> <<"?">>]]
FolderPlaceholder == [Key |-> <<"d", "/">>, Size |-> 0]
EmptyObject == [Key |-> <<"e">>, Size |-> 0]

Descriptors == {SmallObject, ArchivedObject, FolderPlaceholder, EmptyObject}

\* one object of each size around the bin limits of _get_size_category
BoundarySizes ==
    {k * BytesPerMB + d : k \in {0, 1, 10, 100}, d \in {-1, 0, 1}} \cap Nat
SizedObject(size) == [Key |-> <<"s">>, Size |-> size, StorageClass |-> "STANDARD"]

SeqsUpTo(S, n) == UNION {[1..m -> S] : m \in 0..n}

PageOf(contents) == [Contents |-> contents]
PageWithoutContents == [KeyCount |-> 0]

Listing(pages, fault) == [pages |-> pages, fault |-> fault]

\* the ways to put the page breaks of p pages into n descriptors
Cuts(n, p) ==
    {c \in [1..(p - 1) -> 0..n] : \A i \in 1..(p - 2) : c[i] <= c[i + 1]}
SplitAt(objs, cuts) ==
    [i \in 1..(Len(cuts) + 1) |->
        PageOf(SubSeq(objs,
                      (IF i = 1 THEN 0 ELSE cuts[i - 1]) + 1,
                      IF i = Len(cuts) + 1 THEN Len(objs) ELSE cuts[i]))]
Paginations(objs) ==
    UNION {{SplitAt(objs, c) : c \in Cuts(Len(objs), p)} : p \in 1..MaxPages}
    \cup (IF objs = <<>> THEN {<<>>} ELSE {})
\* an empty page as list_objects_v2 sends it: without 'Contents'
WithoutContents(pages) ==
    [i \in DOMAIN pages |->
        IF pages[i].Contents = <<>> THEN PageWithoutContents ELSE pages[i]]

\* every sequence of at most MaxObjects descriptors, in at most MaxPages pages
ScanPageSeqs ==
    LET filled == UNION {Paginations(objs) : objs \in SeqsUpTo(Descriptors, MaxObjects)}
    IN  filled \cup {WithoutContents(ps) : ps \in filled}

\* The listings a single scan is checked on: the listing ends after its
\* pages, or the fetch that follows them raises.
ScanListings ==
    {Listing(ps, f) : ps \in ScanPageSeqs, f \in {NoFault, ClientError("AccessDenied")}}
    \cup {Listing(<<PageOf(<<SizedObject(s)>>)>>, NoFault) : s \in BoundarySizes}

\* The listings the backend answers a sequence of calls with: at most
\* MaxPages fetches, each of which delivers a page or raises.
CallPages == {PageOf(<<SmallObject>>), PageOf(<<FolderPlaceholder>>)}
CallListings ==
    {Listing(ps, NoFault) : ps \in SeqsUpTo(CallPages, MaxPages)}
    \cup {Listing(ps, f) : ps \in SeqsUpTo(CallPages, MaxPages - 1), f \in Faults}

-----------------------------------------------------------------------------
(* S3Analyzer._get_size_category and get_bucket_metrics.                   *)

_get_size_category_Inclusive(size_mb) ==
    IF ~RatLess([num |-> size_mb.den, den |-> 1], size_mb.num) THEN "Small (<1MB)"
    ELSE IF ~RatLess([num |-> 10 * size_mb.den, den |-> 1], size_mb.num) THEN "Medium (1-10MB)"
    ELSE IF ~RatLess([num |-> 100 * size_mb.den, den |-> 1], size_mb.num) THEN "Large (10-100MB)"
    ELSE "Very Large (>100MB)"

_get_size_category(size_mb) ==
    IF RatLess(size_mb, 1) THEN "Small (<1MB)"
    ELSE IF RatLess(size_mb, 10) THEN "Medium (1-10MB)"
    ELSE IF RatLess(size_mb, 100) THEN "Large (10-100MB)"
    ELSE "Very Large (>100MB)"

IsSkipped_AnyZeroByte(obj) == obj.Size = 0

\* if obj['Size'] == 0 and obj['Key'].endswith('/'): continue
IsSkipped(obj) == obj.Size = 0 /\ EndsWith(obj.Key, <<"/">>)

\* obj.get('StorageClass', 'STANDARD')
StorageClassOf(obj) ==
    IF "StorageClass" \in DOMAIN obj THEN obj.StorageClass ELSE "STANDARD"

Digit(n) == <<"0", "1", "2", "3", "4", "5", "6", "7", "8", "9">>[n + 1]
Pad2(n) == <<Digit((n \div 10) % 10), Digit(n % 10)>>
Pad4(n) == Pad2(n \div 100) \o Pad2(n % 100)
\* datetime.strftime('%Y-%m-%d %H:%M:%S')
strftime(t) ==
    Pad4(t.year) \o <<"-">> \o Pad2(t.month) \o <<"-">> \o Pad2(t.day) \o <<" ">>
    \o Pad2(t.hour) \o <<":">> \o Pad2(t.minute) \o <<":">> \o Pad2(t.second)

NA == <<"N", "/", "A">>

\* Whether the name datetime is bound in s3_analysis.py: the module imports
\* boto3, yaml, streamlit, time, logging and four botocore exceptions, and
\* nothing from datetime, so evaluating the name raises NameError.
DatetimeIsBound == FALSE

\* last_modified_str: "N/A" unless the formatting inside the try succeeds.
\* isinstance(obj['LastModified'], datetime) evaluates the name datetime
\* first; the NameError is an Exception, caught by the last except clause,
\* which logs a warning and leaves last_modified_str as it was.
LastModifiedStr(obj) ==
    IF "LastModified" \notin DOMAIN obj THEN NA
    ELSE IF ~DatetimeIsBound THEN NA
    ELSE IF obj.LastModified.type = "datetime" THEN strftime(obj.LastModified)
    ELSE NA

\* The dict appended to objects_list ('Size (MB)', 'Last Modified' and
\* 'Storage Class' are spelled as identifiers).
ObjectRecord(obj) ==
    [Key |-> obj.Key,
     Size_MB |-> Round2(ToMB(obj.Size).num, ToMB(obj.Size).den),
     Last_Modified |-> LastModifiedStr(obj),
     Storage_Class |-> StorageClassOf(obj)]

\* get_bucket_metrics' locals before the loop
InitialTotals ==
    [total_size_bytes |-> 0, total_objects |-> 0, objects_list |-> <<>>,
     size_distribution |-> EmptyDict, storage_class_distribution |-> EmptyDict]

ProcessObject_Overwrite(acc, obj) ==
    IF IsSkipped(obj) THEN acc
    ELSE [total_size_bytes |-> obj.Size,
          total_objects |-> acc.total_objects + 1,
          objects_list |-> Append(acc.objects_list, ObjectRecord(obj)),
          size_distribution |->
              DictIncrement(acc.size_distribution, _get_size_category(ToMB(obj.Size))),
          storage_class_distribution |->
              DictIncrement(acc.storage_class_distribution, StorageClassOf(obj))]

ProcessObject_Prepend(acc, obj) ==
    IF IsSkipped(obj) THEN acc
    ELSE [total_size_bytes |-> acc.total_size_bytes + obj.Size,
          total_objects |-> acc.total_objects + 1,
          objects_list |-> <<ObjectRecord(obj)>> \o acc.objects_list,
          size_distribution |->
              DictIncrement(acc.size_distribution, _get_size_category(ToMB(obj.Size))),
          storage_class_distribution |->
              DictIncrement(acc.storage_class_distribution, StorageClassOf(obj))]

\* the body of "for obj in page['Contents']"
ProcessObject(acc, obj) ==
    IF IsSkipped(obj) THEN acc
    ELSE [total_size_bytes |-> acc.total_size_bytes + obj.Size,
          total_objects |-> acc.total_objects + 1,
          objects_list |-> Append(acc.objects_list, ObjectRecord(obj)),
          size_distribution |->
              DictIncrement(acc.size_distribution, _get_size_category(ToMB(obj.Size))),
          storage_class_distribution |->
              DictIncrement(acc.storage_class_distribution, StorageClassOf(obj))]

RECURSIVE ProcessContents(_, _)
ProcessContents(acc, contents) ==
    IF contents = <<>> THEN acc
    ELSE ProcessContents(ProcessObject(acc, Head(contents)), Tail(contents))

\* the body of "for page in pages"
ProcessPage(acc, page) ==
    IF "Contents" \in DOMAIN page THEN ProcessContents(acc, page.Contents) ELSE acc

RECURSIVE ProcessPages(_, _)
ProcessPages(acc, pages) ==
    IF pages = <<>> THEN acc
    ELSE ProcessPages(ProcessPage(acc, Head(pages)), Tail(pages))

\* the dict returned after the loop
BuildResults(acc) ==
    [total_size_mb |-> Round2(acc.total_size_bytes, BytesPerMB),
     total_objects |-> acc.total_objects,
     average_size_mb |->
         IF acc.total_objects > 0
         THEN Round2(acc.total_size_bytes, BytesPerMB * acc.total_objects)
         ELSE 0,
     size_distribution |-> acc.size_distribution,
     storage_class_distribution |-> acc.storage_class_distribution,
     objects |-> acc.objects_list]

ScanErrorMessage_OneForAll(bucket_name, fault) ==
    [fmt |-> "An unexpected error occurred during analysis: {e}",
     bucket |-> <<>>, detail |-> fault.code]

\* the st.error of the two except clauses
ScanErrorMessage(bucket_name, fault) ==
    IF fault.type = "ClientError" THEN
        IF fault.code = "NoSuchBucket" THEN
            [fmt |-> "Error: Bucket '{bucket_name}' not found or you don't have permission to access it.",
             bucket |-> bucket_name.val, detail |-> ""]
        ELSE IF fault.code = "AccessDenied" THEN
            [fmt |-> "Error: Access Denied. Check IAM permissions for s3:ListBucket on '{bucket_name}'.",
             bucket |-> bucket_name.val, detail |-> ""]
        ELSE IF fault.code = "InvalidBucketName" THEN
            [fmt |-> "Error: Invalid bucket name '{bucket_name}'. Please check the name format.",
             bucket |-> bucket_name.val, detail |-> ""]
        ELSE
            [fmt |-> "An AWS error occurred during analysis: {error_code}",
             bucket |-> <<>>, detail |-> fault.code]
    ELSE
        [fmt |-> "An unexpected error occurred during analysis: {e}",
         bucket |-> <<>>, detail |-> fault.text]

get_bucket_metrics_PartialOnFault(bucket_name, prefix, answer) ==
    LET acc == ProcessPages(InitialTotals, answer.pages)
    IN  [ret |-> BuildResults(acc),
         st_error |-> IF answer.fault = NoFault THEN NoMessage
                      ELSE ScanErrorMessage(bucket_name, answer.fault),
         total_size_bytes |-> acc.total_size_bytes,
         paginate |-> [Bucket |-> bucket_name.val, Prefix |-> prefix.val]]

\* get_bucket_metrics(bucket_name, prefix) against a backend that answers
\* with the listing answer: the returned value, the message displayed, the local
\* total_size_bytes when the loop ended and the arguments of
\* paginator.paginate(Bucket=bucket_name, Prefix=prefix). A fault raised while a page is
\* fetched leaves the loop with what the earlier pages accumulated and
\* returns None.
get_bucket_metrics(bucket_name, prefix, answer) ==
    LET acc == ProcessPages(InitialTotals, answer.pages)
    IN  IF answer.fault = NoFault
        THEN [ret |-> BuildResults(acc), st_error |-> NoMessage,
              total_size_bytes |-> acc.total_size_bytes,
              paginate |-> [Bucket |-> bucket_name.val, Prefix |-> prefix.val]]
        ELSE [ret |-> None, st_error |-> ScanErrorMessage(bucket_name, answer.fault),
              total_size_bytes |-> acc.total_size_bytes,
              paginate |-> [Bucket |-> bucket_name.val, Prefix |-> prefix.val]]

-----------------------------------------------------------------------------
(* S3Analyzer.analyze_bucket.                                              *)

\* cache_key = f"{bucket_name}::{prefix}"
CacheKey(bucket_name, prefix) == bucket_name.val \o <<":", ":">> \o prefix.val

\* if use_cache and cache_key in self.cache
CacheHit(self_cache, cache_key, use_cache) ==
    use_cache /\ cache_key \in DOMAIN self_cache

ShouldStore_WheneverScanned(results, use_cache) == results # None
ShouldStore_OnlyNonEmpty(results, use_cache) ==
    results # None /\ results.total_objects > 0 /\ use_cache

\* if results and use_cache: a results dict always has its six keys, so it
\* is truthy whatever it counts; None is not.
ShouldStore(results, use_cache) == results # None /\ use_cache

\* self.cache[cache_key] = results
CachePut(self_cache, cache_key, results) == (cache_key :> results) @@ self_cache

InvalidBucketMessage ==
    [fmt |-> "Invalid bucket name provided.", bucket |-> <<>>, detail |-> ""]
PrefixWarning ==
    [fmt |-> "Prefix is not a string, using empty prefix.", bucket |-> <<>>, detail |-> ""]

\* get_bucket_metrics was not called
NotPaginated == [Bucket |-> <<>>, Prefix |-> <<>>]

IsInvalidBucket_TypeOnly(bucket_name) == ~IsStr(bucket_name)

\* if not isinstance(bucket_name, str) or not bucket_name
IsInvalidBucket(bucket_name) == ~IsStr(bucket_name) \/ bucket_name.val = <<>>

CoercePrefix_Formatted(prefix) ==
    IF IsStr(prefix) THEN prefix ELSE Str(<<"N", "o", "n", "e">>)

\* if not isinstance(prefix, str): prefix = ""
CoercePrefix(prefix) == IF IsStr(prefix) THEN prefix ELSE Str(<<>>)

\* analyze_bucket(bucket_name, prefix, use_cache) on an analyzer whose cache
\* is self_cache, against a backend that would answer with the listing
\* answer: what it
\* returns, the cache it leaves, whether it looked the key up in the cache,
\* whether it called get_bucket_metrics, what
\* the paginator raised and what it displayed. `use_cache and cache_key in
\* self.cache` looks the key up only when use_cache is true.
analyze_bucket(self_cache, bucket_name, prefix, use_cache, answer) ==
    IF IsInvalidBucket(bucket_name)
    THEN [ret |-> None, cache |-> self_cache, listed |-> FALSE, raised |-> NoFault,
          paginate |-> NotPaginated, looked_up |-> FALSE,
          st_error |-> InvalidBucketMessage, st_warning |-> NoMessage,
          total_size_bytes |-> 0]
    ELSE
        LET prefix_str == CoercePrefix(prefix)
            warning == IF IsStr(prefix) THEN NoMessage ELSE PrefixWarning
            cache_key == CacheKey(bucket_name, prefix_str)
            metrics == get_bucket_metrics(bucket_name, prefix_str, answer)
        IN  IF CacheHit(self_cache, cache_key, use_cache)
            THEN [ret |-> self_cache[cache_key], cache |-> self_cache, listed |-> FALSE,
                  raised |-> NoFault, paginate |-> NotPaginated, looked_up |-> TRUE,
                  st_error |-> NoMessage, st_warning |-> warning,
                  total_size_bytes |-> 0]
            ELSE [ret |-> metrics.ret,
                  cache |-> IF ShouldStore(metrics.ret, use_cache)
                            THEN CachePut(self_cache, cache_key, metrics.ret)
                            ELSE self_cache,
                  listed |-> TRUE, raised |-> answer.fault,
                  paginate |-> metrics.paginate, looked_up |-> use_cache,
                  st_error |-> metrics.st_error, st_warning |-> warning,
                  total_size_bytes |-> metrics.total_size_bytes]

BucketNames == {Str(<<"b">>), Str(<<>>), None}
Prefixes == {Str(<<>>), Str(<<"p">>), None}

\* the analyzer's variables after a call
AnalyzerAfter(bucket_name, prefix, use_cache, out) ==
    /\ call' = [bucket_name |-> bucket_name, prefix |-> prefix, use_cache |-> use_cache]
    /\ cache' = out.cache
    /\ listed' = out.listed
    /\ raised' = out.raised
    /\ paginated' = out.paginate
    /\ looked_up' = out.looked_up
    /\ origin' = IF out.cache = cache THEN origin
                 ELSE [k \in DOMAIN out.cache |->
                          IF k \in DOMAIN cache /\ out.cache[k] = cache[k]
                          THEN origin[k] ELSE out.paginate]
    /\ ret' = out.ret
    /\ st_error' = out.st_error
    /\ st_warning' = out.st_warning
    /\ total_size_bytes' = out.total_size_bytes

-----------------------------------------------------------------------------
(* dashboard.py: one run of the script after a click on Run Analysis.      *)

IsSpace(c) == c = " "

RECURSIVE lstrip(_)
lstrip(s) == IF s # <<>> /\ IsSpace(Head(s)) THEN lstrip(Tail(s)) ELSE s
RECURSIVE rstrip(_)
rstrip(s) ==
    IF s # <<>> /\ IsSpace(s[Len(s)]) THEN rstrip(SubSeq(s, 1, Len(s) - 1)) ELSE s
\* str.strip()
strip(s) == rstrip(lstrip(s))

BucketEmptyMessage ==
    [fmt |-> "Bucket name cannot be empty.", bucket |-> <<>>, detail |-> ""]

\* The if / elif / else of the main content, on st.session_state.last_analysis.
MainContent(la) ==
    IF la # None /\ la.results # None THEN "results"
    ELSE IF la # None /\ la.results = None THEN "failed"
    ELSE "initial"

\* last_analysis after analyze_bucket returned results: stored when truthy
\* (with a timestamp and a duration, which nothing here reads), left as
\* it was otherwise.
LastAnalysisAfter(la, results) ==
    IF results # None THEN [results |-> results] ELSE la

BucketInputs == {<<"b">>, <<" ", "b", " ">>, <<>>, <<" ">>}
PrefixInputs == {<<>>, <<"p", " ">>}

-----------------------------------------------------------------------------
(* Specifications.                                                         *)

EmptyListing == Listing(<<>>, NoFault)

\* S3Analyzer.__init__ and the dashboard's first run
Init ==
    /\ cache = EmptyDict
    /\ call = NoCall
    /\ listing = EmptyListing
    /\ listed = FALSE
    /\ raised = NoFault
    /\ paginated = NotPaginated
    /\ looked_up = FALSE
    /\ origin = EmptyDict
    /\ ret = None
    /\ st_error = NoMessage
    /\ st_warning = NoMessage
    /\ total_size_bytes = 0
    /\ last_analysis = None
    /\ view = MainContent(None)
    /\ last_scan = "never"

\* a caller invokes analyze_bucket; the backend answers with any listing
Analyze ==
    \E bucket_name \in BucketNames, prefix \in Prefixes, use_cache \in BOOLEAN,
       answer \in CallListings :
        /\ AnalyzerAfter(bucket_name, prefix, use_cache,
                         analyze_bucket(cache, bucket_name, prefix, use_cache, answer))
        /\ UNCHANGED listing
        /\ UNCHANGED dashboard_vars

Next == Analyze

Spec == Init /\ [][Next]_vars

\* The user clicks Run Analysis: the sidebar handler, then the main content.
RunAnalysis ==
    \E bucket_name_input \in BucketInputs, prefix_input \in PrefixInputs,
       answer \in CallListings :
        LET bucket_name == strip(bucket_name_input)
            prefix == strip(prefix_input)
            out == analyze_bucket(cache, Str(bucket_name), Str(prefix), TRUE, answer)
        IN  IF bucket_name = <<>>
            THEN /\ st_error' = BucketEmptyMessage
                 /\ view' = MainContent(last_analysis)
                 /\ UNCHANGED <<cache, call, listing, listed, raised, paginated, looked_up, origin, ret,
                                st_warning,
                                total_size_bytes, last_analysis, last_scan>>
            ELSE /\ AnalyzerAfter(Str(bucket_name), Str(prefix), TRUE, out)
                 /\ UNCHANGED listing
                 /\ last_analysis' = LastAnalysisAfter(last_analysis, out.ret)
                 /\ view' = MainContent(last_analysis')
                 /\ last_scan' = IF out.ret # None THEN "succeeded" ELSE "failed"

NextDash == RunAnalysis

SpecDash == Init /\ [][NextDash]_vars

\* One scan of one listing: the listing is drawn first, then analyze_bucket
\* is called once on a new analyzer.
InitScan ==
    /\ cache = EmptyDict
    /\ call = NoCall
    /\ listing \in ScanListings
    /\ listed = FALSE
    /\ raised = NoFault
    /\ paginated = NotPaginated
    /\ looked_up = FALSE
    /\ origin = EmptyDict
    /\ ret = None
    /\ st_error = NoMessage
    /\ st_warning = NoMessage
    /\ total_size_bytes = 0
    /\ last_analysis = None
    /\ view = MainContent(None)
    /\ last_scan = "never"

ScanOnce ==
    /\ call = NoCall
    /\ \E use_cache \in BOOLEAN :
        AnalyzerAfter(Str(<<"b">>), Str(<<>>), use_cache,
                      analyze_bucket(cache, Str(<<"b">>), Str(<<>>), use_cache, listing))
    /\ UNCHANGED listing
    /\ UNCHANGED dashboard_vars

NextScan == ScanOnce

SpecScan == InitScan /\ [][NextScan]_vars

\* Calls of analyze_bucket with bucket names and prefixes that contain the
\* separator of the cache key: "b" with "p::" and "b::p" with "" are two
\* pairs, as are "b" with "" and "b::p" with "p::".
KeyBucketNames == {Str(<<"b">>), Str(<<"b", ":", ":", "p">>)}
KeyPrefixes == {Str(<<>>), Str(<<"p", ":", ":">>)}

AnalyzeKeyed ==
    \E bucket_name \in KeyBucketNames, prefix \in KeyPrefixes, use_cache \in BOOLEAN,
       answer \in CallListings :
        /\ AnalyzerAfter(bucket_name, prefix, use_cache,
                         analyze_bucket(cache, bucket_name, prefix, use_cache, answer))
        /\ UNCHANGED listing
        /\ UNCHANGED dashboard_vars

NextKeys == AnalyzeKeyed

SpecKeys == Init /\ [][NextKeys]_vars

-----------------------------------------------------------------------------
(* The latest call, as the properties below read it.                       *)

CallIsValid ==
    call # NoCall /\ IsStr(call.bucket_name) /\ call.bucket_name.val # <<>>
\* the (bucket, prefix) entry the latest call is about
CallKey ==
    CacheKey(call.bucket_name, IF IsStr(call.prefix) THEN call.prefix ELSE Str(<<>>))
ScanFailed == listed /\ raised # NoFault

-----------------------------------------------------------------------------
(* C1 as stated: analyze(bucket, prefix, use_cache=false) always invokes   *)
(* the backend listing, and when the scan succeeds the cache entry for     *)
(* (bucket, prefix) holds the new result afterwards. The code stores a     *)
(* result only when use_cache is true, so the second half fails.           *)
C1_BypassRefreshesCache ==
    (CallIsValid /\ ~call.use_cache) =>
        /\ listed
        /\ ret # None => (CallKey \in DOMAIN cache /\ cache[CallKey] = ret)

(* C1 as amended: analyze(bucket, prefix, use_cache=false) with a valid    *)
(* bucket name always invokes the backend listing, even when an entry for  *)
(* (bucket, prefix) exists, and never changes the cache; a following       *)
(* analyze(bucket, prefix, use_cache=true) returns the entry that was      *)
(* there before, if any, and scans again if there was none.                *)
C1_BypassLeavesCache ==
    [][ /\ (CallIsValid' /\ ~call'.use_cache) => (listed' /\ cache' = cache)
        /\ (CallIsValid /\ ~call.use_cache /\ CallIsValid' /\ call'.use_cache
              /\ CallKey' = CallKey) =>
                IF CallKey \in DOMAIN cache
                THEN ~listed' /\ ret' = cache[CallKey]
                ELSE listed' ]_vars

\* a bypassing call scanned successfully while an entry with another result
\* stays cached for its key
C1_Witness ==
    /\ CallIsValid /\ ~call.use_cache /\ listed /\ ret # None
    /\ CallKey \in DOMAIN cache
    /\ cache[CallKey] # ret

-----------------------------------------------------------------------------
(* C2: two analyze calls with use_cache=true for the same (bucket, prefix),*)
(* the first of which returned a result, list the backend only once: the   *)
(* second call does not invoke the listing and returns the same result,    *)
(* whatever the backend holds by then and whatever the result counts (a    *)
(* result with zero retained objects included). No call ever changes or    *)
(* removes an entry the cache holds, so this is so however many calls lie  *)
(* between the two.                                                        *)
C2_CachedScanIsReused ==
    [][ /\ (CallIsValid /\ call.use_cache /\ ret # None
              /\ CallIsValid' /\ call'.use_cache /\ CallKey' = CallKey) =>
                (~listed' /\ ret' = ret)
        /\ (CallIsValid' /\ call'.use_cache /\ listed' /\ ret' # None) =>
                (CallKey' \in DOMAIN cache' /\ cache'[CallKey'] = ret')
        /\ \A k \in DOMAIN cache : k \in DOMAIN cache' /\ cache'[k] = cache[k] ]_vars

\* a cached result with zero retained objects is returned without a listing
C2_Witness ==
    /\ CallIsValid /\ call.use_cache /\ ~listed
    /\ ret # None
    /\ ret.total_objects = 0

-----------------------------------------------------------------------------
(* C3 as stated: when the backend fails on any page of a scan, analyze     *)
(* returns no result and leaves the cache as it was, and the next analyze  *)
(* for the same (bucket, prefix) with use_cache=true invokes the backend   *)
(* listing again. The last part fails when the failed call bypassed the    *)
(* cache while an earlier result was cached.                               *)
C3_RetryAlwaysRescans ==
    [][ /\ (listed' /\ raised' # NoFault) => (ret' = None /\ cache' = cache)
        /\ (CallIsValid /\ ScanFailed /\ CallIsValid' /\ call'.use_cache
              /\ CallKey' = CallKey) => listed' ]_vars

(* C3 as amended: when the backend fails on any page of a scan, analyze    *)
(* returns no result and leaves the cache as it was, and no entry of the   *)
(* cache is ever a failure. The next analyze for the same (bucket, prefix) *)
(* with use_cache=true invokes the backend listing again, unless a result  *)
(* was cached for (bucket, prefix) before the failed call (which then was  *)
(* a use_cache=false call): it then returns that cached result.            *)
C3_FailureIsNotCached ==
    [][ /\ (listed' /\ raised' # NoFault) => (ret' = None /\ cache' = cache)
        /\ \A k \in DOMAIN cache' : cache'[k] # None
        /\ (CallIsValid /\ ScanFailed /\ CallIsValid' /\ call'.use_cache
              /\ CallKey' = CallKey) =>
                IF CallKey \in DOMAIN cache
                THEN ~call.use_cache /\ ~listed' /\ ret' = cache[CallKey] /\ ret' # None
                ELSE listed' ]_vars

\* the backend failed on a later page, after a page with a retained object
\* was aggregated, while the cache holds an entry
C3_Witness ==
    /\ CallIsValid /\ ScanFailed
    /\ total_size_bytes > 0
    /\ ret = None
    /\ cache # EmptyDict

-----------------------------------------------------------------------------
(* C11: analyze called with a bucket_name that is the empty string or is   *)
(* not a string returns no result and displays the invalid-name message,   *)
(* without invoking the backend listing and without looking the key up in  *)
(* the cache or changing the cache, for either value of use_cache and      *)
(* whatever the cache holds.                                               *)
C11_InvalidBucketIsRejected ==
    [][ (call' # NoCall /\ ~CallIsValid') =>
            /\ ret' = None
            /\ st_error' = InvalidBucketMessage
            /\ ~listed' /\ paginated' = NotPaginated
            /\ ~looked_up'
            /\ cache' = cache ]_vars

\* the empty bucket name was rejected by a use_cache=true call while the
\* cache holds an entry
C11_Witness ==
    /\ call # NoCall /\ call.bucket_name = Str(<<>>) /\ call.use_cache
    /\ ret = None /\ ~listed
    /\ cache # EmptyDict

-----------------------------------------------------------------------------
(* C12: analyze called with a valid bucket_name and a non-string prefix    *)
(* does not fail for that reason and behaves as analyze(bucket_name, "")   *)
(* in the same state: with E the cache key of (bucket_name, ""), it        *)
(* returns the entry at E without a listing exactly when use_cache is true *)
(* and E is cached, otherwise it lists the backend with the empty prefix,  *)
(* returns what the scan returns and, when use_cache is true and the scan  *)
(* produced a result, stores it at E; it changes nothing else in the       *)
(* cache. The same holds of a call with prefix "".                         *)
EmptyPrefixKey == CacheKey(call.bucket_name, Str(<<>>))
PrefixIsEmptyOrNotStr == ~IsStr(call.prefix) \/ call.prefix = Str(<<>>)

C12_NonStringPrefixIsEmpty ==
    [][ (CallIsValid' /\ PrefixIsEmptyOrNotStr') =>
            LET E == EmptyPrefixKey'
                hit == call'.use_cache /\ E \in DOMAIN cache
            IN  /\ st_error' # InvalidBucketMessage
                /\ listed' <=> ~hit
                /\ hit => (ret' = cache[E] /\ cache' = cache)
                /\ listed' =>
                    /\ paginated' = [Bucket |-> call'.bucket_name.val, Prefix |-> <<>>]
                    /\ ret' = None <=> raised' # NoFault
                    /\ cache' = IF call'.use_cache /\ ret' # None
                                THEN CachePut(cache, E, ret') ELSE cache ]_vars

\* a result cached by a call with prefix "" was served to a use_cache=true
\* call with a non-string prefix, which displayed the warning
C12_Witness ==
    /\ CallIsValid /\ ~IsStr(call.prefix) /\ call.use_cache
    /\ ~listed /\ ret # None
    /\ st_warning = PrefixWarning
    /\ origin[CallKey] = [Bucket |-> call.bucket_name.val, Prefix |-> <<>>]

-----------------------------------------------------------------------------
(* C8: the kinds of failure the claim tells apart.                         *)
FaultKind(fault) ==
    IF fault.type = "ClientError"
    THEN IF fault.code \in {"NoSuchBucket", "AccessDenied", "InvalidBucketName"}
         THEN fault.code
         ELSE "other backend fault"
    ELSE "unexpected error"

(* C8 as stated: the value analyze hands back after a failed scan          *)
(* identifies the kind of failure, so two failed scans of different kinds  *)
(* hand back different values. Every failure returns None.                 *)
C8_ReturnTellsKind ==
    [][ (ScanFailed /\ ScanFailed' /\ FaultKind(raised') # FaultKind(raised)) =>
            ret' # ret ]_vars

(* C8 as amended: a failed scan returns None whatever the kind of failure, *)
(* so the returned value does not identify the kind; what tells a          *)
(* bucket-not-found failure from an access-denied one, from an invalid     *)
(* bucket name, from any other backend fault and from an unexpected error  *)
(* is the message displayed through st.error, which differs between any    *)
(* two of the five kinds.                                                  *)
C8_MessageTellsKind ==
    [][ /\ ScanFailed' => (ret' = None /\ st_error' # NoMessage)
        /\ (ScanFailed /\ ScanFailed' /\ FaultKind(raised') # FaultKind(raised)) =>
                st_error'.fmt # st_error.fmt ]_vars

\* a failed scan of a kind the code has a message of its own for
C8_Witness ==
    /\ ScanFailed
    /\ FaultKind(raised) = "InvalidBucketName"
    /\ ret = None
    /\ st_error.bucket = call.bucket_name.val

-----------------------------------------------------------------------------
(* What a listing holds, as the properties of one scan read it.            *)

RECURSIVE Flatten(_)
\* every descriptor of the pages, in listing order
Flatten(pages) ==
    IF pages = <<>> THEN <<>>
    ELSE (IF "Contents" \in DOMAIN Head(pages) THEN Head(pages).Contents ELSE <<>>)
         \o Flatten(Tail(pages))

\* a folder placeholder: size 0 and a key that ends in '/'
IsPlaceholder(d) == d.Size = 0 /\ d.Key # <<>> /\ d.Key[Len(d.Key)] = "/"
IsRetained(d) == ~IsPlaceholder(d)
Listed == Flatten(listing.pages)
Retained == SelectSeq(Listed, IsRetained)

RECURSIVE SumSizes(_)
SumSizes(ds) == IF ds = <<>> THEN 0 ELSE Head(ds).Size + SumSizes(Tail(ds))

RECURSIVE SumValues(_)
\* sum(d.values())
SumValues(d) ==
    IF DOMAIN d = {} THEN 0
    ELSE LET k == CHOOSE x \in DOMAIN d : TRUE
         IN  d[k] + SumValues([x \in DOMAIN d \ {k} |-> d[x]])

CountOf(d, k) == IF k \in DOMAIN d THEN d[k] ELSE 0

ScanSucceeded == call # NoCall /\ ret # None

-----------------------------------------------------------------------------
(* C4: every result a scan returns, and every result the cache holds, has  *)
(* total_objects == len(objects) == sum of the size_distribution counts == *)
(* sum of the storage_class_distribution counts.                           *)
CountsAgree(results) ==
    /\ results.total_objects = Len(results.objects)
    /\ SumValues(results.size_distribution) = results.total_objects
    /\ SumValues(results.storage_class_distribution) = results.total_objects

\* C4: the counts agree in the returned result and in every cached result
C4_CountsAgree ==
    /\ ret # None => CountsAgree(ret)
    /\ \A k \in DOMAIN cache : CountsAgree(cache[k])

\* a cached result of several objects, two of them in one size bin, after a
\* listing that also held a skipped placeholder
C4_Witness ==
    /\ ScanSucceeded
    /\ cache # EmptyDict
    /\ ret.total_objects >= 2
    /\ \E lbl \in DOMAIN ret.size_distribution : ret.size_distribution[lbl] >= 2
    /\ Len(Listed) > Len(Retained)

-----------------------------------------------------------------------------
(* C5: a scan leaves a listed descriptor out of the total size, of         *)
(* total_objects, of both distributions and of objects exactly when its    *)
(* size is 0 and its key ends in '/'; every other descriptor is counted    *)
(* once in each of them.                                                   *)
C5_OnlyPlaceholdersSkipped ==
    ScanSucceeded =>
        /\ ret.total_objects = Len(Retained)
        /\ total_size_bytes = SumSizes(Retained)
        /\ Len(ret.objects) = Len(Retained)
        /\ \A i \in 1..Len(Retained) : ret.objects[i].Key = Retained[i].Key
        /\ SumValues(ret.size_distribution) = Len(Retained)
        /\ SumValues(ret.storage_class_distribution) = Len(Retained)
        /\ \A c \in {"STANDARD", "GLACIER"} :
            CountOf(ret.storage_class_distribution, c) =
                Cardinality({i \in 1..Len(Retained) :
                    (IF "StorageClass" \in DOMAIN Retained[i]
                     THEN Retained[i].StorageClass ELSE "STANDARD") = c})

\* a scan of a listing that holds a placeholder, a zero-byte object whose
\* key does not end in '/' and a non-empty object whose key ends in '/'
C5_Witness ==
    /\ ScanSucceeded
    /\ \E i \in 1..Len(Listed) : IsPlaceholder(Listed[i])
    /\ \E i \in 1..Len(Listed) :
        Listed[i].Size = 0 /\ Listed[i].Key[Len(Listed[i].Key)] # "/"
    /\ \E i \in 1..Len(Listed) :
        Listed[i].Size > 0 /\ Listed[i].Key[Len(Listed[i].Key)] = "/"
    /\ ret.total_objects = 2

-----------------------------------------------------------------------------
(* C6: the size category the scan counts a retained object of size_bytes   *)
(* in is "Small (<1MB)" below 1,048,576 bytes, "Medium (1-10MB)" below     *)
(* 10,485,760, "Large (10-100MB)" below 104,857,600 and                    *)
(* "Very Large (>100MB)" from there on: each limit belongs to the higher   *)
(* bin, and no other label is ever used.                                   *)
SizeLabels ==
    {"Small (<1MB)", "Medium (1-10MB)", "Large (10-100MB)", "Very Large (>100MB)"}
BinOfBytes(size_bytes) ==
    IF size_bytes < 1048576 THEN "Small (<1MB)"
    ELSE IF size_bytes < 10485760 THEN "Medium (1-10MB)"
    ELSE IF size_bytes < 104857600 THEN "Large (10-100MB)"
    ELSE "Very Large (>100MB)"

\* C6: size_distribution counts each retained object in the bin of its bytes
C6_SizeBins ==
    ScanSucceeded =>
        /\ DOMAIN ret.size_distribution \subseteq SizeLabels
        /\ \A lbl \in SizeLabels :
            CountOf(ret.size_distribution, lbl) =
                Cardinality({i \in 1..Len(Retained) : BinOfBytes(Retained[i].Size) = lbl})

\* an object of exactly 1,048,576 bytes was counted as Medium
C6_Witness ==
    /\ ScanSucceeded
    /\ \E i \in 1..Len(Retained) : Retained[i].Size = 1048576
    /\ CountOf(ret.size_distribution, "Medium (1-10MB)") = 1

-----------------------------------------------------------------------------
(* C7: the scenario of two pages, the first holding one object of 512,000  *)
(* bytes in tier STANDARD and the second one object of 150,000,000 bytes   *)
(* in tier GLACIER.                                                        *)
IsTwoPageScenario ==
    /\ listing.fault = NoFault
    /\ Len(listing.pages) = 2
    /\ \A i \in 1..2 : "Contents" \in DOMAIN listing.pages[i]
                         /\ Len(listing.pages[i].Contents) = 1
    /\ listing.pages[1].Contents[1].Size = 512000
    /\ StorageClassOf(listing.pages[1].Contents[1]) = "STANDARD"
    /\ listing.pages[2].Contents[1].Size = 150000000
    /\ StorageClassOf(listing.pages[2].Contents[1]) = "GLACIER"

(* C7 as stated: the scenario scans to total_objects = 2, one Small and    *)
(* one Very Large object, one STANDARD and one GLACIER object, and a total *)
(* size in bytes that, divided by total_objects, is 75,256,250. The total  *)
(* is 150,512,000 bytes and half of it is 75,256,000.                      *)
C7_AverageAsStated ==
    (IsTwoPageScenario /\ call # NoCall) =>
        /\ ret # None
        /\ ret.total_objects = 2
        /\ ret.size_distribution = ("Small (<1MB)" :> 1) @@ ("Very Large (>100MB)" :> 1)
        /\ ret.storage_class_distribution = ("STANDARD" :> 1) @@ ("GLACIER" :> 1)
        /\ total_size_bytes = 75256250 * ret.total_objects

(* C7 as amended: the scenario scans to total_objects = 2, one Small and   *)
(* one Very Large object, one STANDARD and one GLACIER object, and a total *)
(* size of 150,512,000 bytes, which divided by total_objects is 75,256,000 *)
(* bytes; the result reports it in megabytes rounded to two decimals,      *)
(* 71.77.                                                                  *)
C7_TwoPageScenario ==
    (IsTwoPageScenario /\ call # NoCall) =>
        /\ ret # None
        /\ ret.total_objects = 2
        /\ ret.size_distribution = ("Small (<1MB)" :> 1) @@ ("Very Large (>100MB)" :> 1)
        /\ ret.storage_class_distribution = ("STANDARD" :> 1) @@ ("GLACIER" :> 1)
        /\ total_size_bytes = 150512000
        /\ total_size_bytes = 75256000 * ret.total_objects
        /\ ret.average_size_mb = Round2(75256000, BytesPerMB)
        /\ ret.average_size_mb = 7177

\* C7: the scenario was scanned
C7_Witness ==
    /\ IsTwoPageScenario
    /\ ScanSucceeded
    /\ Len(ret.objects) = 2

-----------------------------------------------------------------------------
(* C13: the objects sequence of a successful scan is the sequence of the   *)
(* retained descriptors in backend-listing order, pages in the order the   *)
(* backend produced them and descriptors in page order within a page: it   *)
(* has one record per retained descriptor, none dropped, duplicated or     *)
(* moved, and the record at each position carries that descriptor's key    *)
(* and its storage class, "STANDARD" when the descriptor has none.         *)
StorageClassOrStandard(d) ==
    IF "StorageClass" \in DOMAIN d THEN d.StorageClass ELSE "STANDARD"

C13_ObjectsInListingOrder ==
    ScanSucceeded =>
        /\ Len(ret.objects) = Len(Retained)
        /\ \A i \in 1..Len(Retained) :
            /\ ret.objects[i].Key = Retained[i].Key
            /\ ret.objects[i].Storage_Class = StorageClassOrStandard(Retained[i])

\* a two-page listing whose keys are not in sorted order, with a skipped
\* placeholder between retained descriptors and a descriptor without
\* storage class
C13_Witness ==
    /\ ScanSucceeded
    /\ Len(listing.pages) = 2
    /\ \A i \in 1..2 : "Contents" \in DOMAIN listing.pages[i]
    /\ listing.pages[1].Contents = <<EmptyObject, FolderPlaceholder>>
    /\ listing.pages[2].Contents = <<SmallObject>>
    /\ Len(ret.objects) = 2
    /\ ret.objects[1].Key = <<"e">> /\ ret.objects[1].Storage_Class = "STANDARD"
    /\ ret.objects[2].Key = <<"a">>

-----------------------------------------------------------------------------
(* C10: no value of a descriptor's last-modified field aborts a scan, and  *)
(* the record of each retained descriptor has "N/A" as its last-modified   *)
(* exactly when the field is absent or is not a timestamp, and the         *)
(* timestamp formatted as YYYY-MM-DD HH:MM:SS when it is one. The scan     *)
(* records "N/A" for valid timestamps too: s3_analysis.py never imports    *)
(* datetime, so the isinstance test raises NameError, which the except     *)
(* clause around it swallows.                                              *)
HasTimestamp(d) ==
    "LastModified" \in DOMAIN d /\ d.LastModified.type = "datetime"

\* C10: no scan is aborted, and a record's last-modified is "N/A" exactly
\* when the descriptor has no timestamp, the formatted timestamp otherwise
C10_TimestampsAreKept ==
    /\ (call # NoCall /\ listing.fault = NoFault) => ret # None
    /\ ScanSucceeded =>
        /\ Len(ret.objects) = Len(Retained)
        /\ \A i \in 1..Len(Retained) :
            /\ ret.objects[i].Last_Modified = NA <=> ~HasTimestamp(Retained[i])
            /\ HasTimestamp(Retained[i]) =>
                ret.objects[i].Last_Modified = strftime(Retained[i].LastModified)

-----------------------------------------------------------------------------
(* C9: the dashboard tells "no scan has been run yet" from "the most       *)
(* recent scan failed" from "the most recent scan produced results": the   *)
(* main content shows the initial hint only before the first scan, the     *)
(* results only when the most recent scan produced them, and after a       *)
(* failed scan neither of the two; last_analysis is None only before the   *)
(* first scan. The handler leaves last_analysis as it                      *)
(* was when analyze_bucket returns None, so after a failed scan the view   *)
(* is the initial hint or the results of an earlier scan.                  *)
C9_ViewTellsOutcome ==
    /\ view = "initial" <=> last_scan = "never"
    /\ view = "results" <=> last_scan = "succeeded"
    /\ last_scan = "failed" => view \notin {"initial", "results"}
    /\ last_analysis = None <=> last_scan = "never"

-----------------------------------------------------------------------------
(* C14: the cache is keyed by the pair (bucket_name, prefix): a            *)
(* use_cache=true call for a non-empty bucket name and a prefix string     *)
(* that is served from the cache returns a result that a scan of that same *)
(* bucket name and prefix produced, never the result of a scan of another  *)
(* pair, names and prefixes that contain "::" included. The key is the     *)
(* text bucket_name + "::" + prefix, which is the same for "b" with "p::"  *)
(* and "b::p" with "", so the one call is served the other's result.       *)
C14_PairsNeverShareEntry ==
    (CallIsValid /\ IsStr(call.prefix) /\ call.use_cache /\ ~listed /\ ret # None) =>
        origin[CallKey] = [Bucket |-> call.bucket_name.val, Prefix |-> call.prefix.val]

====
